---- MODULE Spec2Model ----
(***************************************************************************)
(* A model of jundo's undo manager (Lib/jundo/undoManager.py): the model   *)
(* object tree, the generic item primitives, Change / ChangeSet            *)
(* application, the proxy mutations and the UndoManager's stacks.          *)
(*                                                                         *)
(* Python objects are mutated in place; here a model tree is a value and a *)
(* mutation of a nested container rebuilds the spine above it (PutNested). *)
(* The two agree as long as no container object is reachable along two     *)
(* paths, which holds for the models and the freshly built values below.   *)
(***************************************************************************)
EXTENDS Integers, Sequences, FiniteSets, TLC

----------------------------------------------------------------------------
(* Bounds *)

MaxChanges == 2   \* changes recorded in one change set
MaxStack == 2     \* entries on the undo and redo stack together
MaxTotal == 2     \* changes held by the stacks and the active set together
MaxLen == 3       \* length of a sequence in the model

----------------------------------------------------------------------------
(* Path elements: a str key / attribute name, or an int index.             *)

Key(s) == [isInt |-> FALSE, i |-> 0, s |-> s]
Index(i) == [isInt |-> TRUE, i |-> i, s |-> ""]

(* Model nodes.  kind is the Python type the singledispatch registry sees: *)
(*   "atom" int, "seq" list, "map" dict, "obj" an attribute object,        *)
(*   "set" set, "none" None.                                               *)
(* An attribute object has instance attributes (map) and the attributes of *)
(* its class (cls): dataclass defaults and methods live on the class.      *)
(* err marks the test suite's _error_dict, whose __setitem__ raises.       *)

EmptyMap == [k \in {} |-> 0]

NoneNode ==
    [kind |-> "none", val |-> 0, seq |-> <<>>, map |-> EmptyMap,
     cls |-> EmptyMap, mem |-> {}, err |-> FALSE]

Atom(v) == [NoneNode EXCEPT !.kind = "atom", !.val = v]
SeqNode(s) == [NoneNode EXCEPT !.kind = "seq", !.seq = s]
MapNode(m) == [NoneNode EXCEPT !.kind = "map", !.map = m]
ErrorDict(m) == [NoneNode EXCEPT !.kind = "map", !.map = m, !.err = TRUE]
ObjNode(inst, classAttrs) ==
    [NoneNode EXCEPT !.kind = "obj", !.map = inst, !.cls = classAttrs]
SetNode(members) == [NoneNode EXCEPT !.kind = "set", !.mem = members]
\* a tuple of items
TupleNode(s) == [NoneNode EXCEPT !.kind = "tuple", !.seq = s]
\* a method: called with x it stores x in the attributes named in stores of
\* the object it is bound to, and returns x + add
CallNode(add, stores) == [NoneNode EXCEPT !.kind = "call", !.val = add, !.mem = stores]

MapPut(m, k, v) == [x \in (DOMAIN m) \cup {k} |-> IF x = k THEN v ELSE m[x]]
MapDel(m, k) == [x \in (DOMAIN m) \ {k} |-> m[x]]

(* The outcome of a call: the error it raised ("none" when it returned)    *)
(* and the object as the call left it.                                     *)
Ok(node) == [err |-> "none", node |-> node]
Raise(e, node) == [err |-> e, node |-> node]

----------------------------------------------------------------------------
(* Python list primitives *)

\* list.__getitem__ / __setitem__ / __delitem__ : negative indices count
\* from the end, anything outside [-n, n-1] is an IndexError.
ListPos(s, i) == IF i < 0 THEN i + Len(s) ELSE i
ListInRange(s, i) == 0 <= ListPos(s, i) /\ ListPos(s, i) < Len(s)

\* list.insert clamps its index.
ListInsertPos(s, i) ==
    LET p == ListPos(s, i)
    IN  IF p < 0 THEN 0 ELSE IF p > Len(s) THEN Len(s) ELSE p

ListInsert(s, i, v) ==
    LET p == ListInsertPos(s, i)
    IN  SubSeq(s, 1, p) \o <<v>> \o SubSeq(s, p + 1, Len(s))

ListDelete(s, i) ==
    LET p == ListPos(s, i)
    IN  SubSeq(s, 1, p) \o SubSeq(s, p + 2, Len(s))

----------------------------------------------------------------------------
(* hasattr / getattr / setattr / delattr on an object of any kind.         *)
(* Only "obj" nodes carry attributes; int, None, list, dict and set have   *)
(* none of the names used here and accept no new ones.                     *)

HasAttr(obj, k) ==
    /\ ~k.isInt
    /\ obj.kind = "obj"
    /\ (k \in DOMAIN obj.map \/ k \in DOMAIN obj.cls)

GetAttr(obj, k) ==
    IF k.isInt THEN Raise("TypeError", obj)
    ELSE IF obj.kind = "obj" /\ k \in DOMAIN obj.map THEN Ok(obj.map[k])
    ELSE IF obj.kind = "obj" /\ k \in DOMAIN obj.cls THEN Ok(obj.cls[k])
    ELSE Raise("AttributeError", obj)

SetAttr(obj, k, value) ==
    IF k.isInt THEN Raise("TypeError", obj)
    ELSE IF obj.kind = "obj" THEN Ok([obj EXCEPT !.map = MapPut(obj.map, k, value)])
    ELSE Raise("AttributeError", obj)

DelAttr(obj, k) ==
    IF k.isInt THEN Raise("TypeError", obj)
    ELSE IF obj.kind = "obj" /\ k \in DOMAIN obj.map
         THEN Ok([obj EXCEPT !.map = MapDel(obj.map, k)])
    ELSE Raise("AttributeError", obj)

----------------------------------------------------------------------------
(* The generic item functions, dispatched on the type of obj.  hasItem     *)
(* returns its answer in has.                                              *)

Dispatch(obj) ==
    IF obj.kind \in {"seq", "map", "set"} THEN obj.kind ELSE "object"

hasItem(obj, k) ==
    CASE Dispatch(obj) = "seq" ->
            IF ~k.isInt THEN [err |-> "TypeError", has |-> FALSE]
            ELSE IF 0 <= k.i /\ k.i < Len(obj.seq)
                 THEN [err |-> "none", has |-> TRUE]
                 ELSE [err |-> "AssertionError", has |-> FALSE]
      [] Dispatch(obj) = "map" -> [err |-> "none", has |-> k \in DOMAIN obj.map]
      [] Dispatch(obj) = "set" -> [err |-> "none", has |-> k \in obj.mem]
      [] OTHER -> IF k.isInt THEN [err |-> "TypeError", has |-> FALSE]
                  ELSE [err |-> "none", has |-> HasAttr(obj, k)]

getItem(obj, k) ==
    CASE Dispatch(obj) = "seq" ->
            IF ~k.isInt THEN Raise("TypeError", obj)
            ELSE IF ListInRange(obj.seq, k.i)
                 THEN Ok(obj.seq[ListPos(obj.seq, k.i) + 1])
                 ELSE Raise("IndexError", obj)
      [] Dispatch(obj) = "map" ->
            IF k \in DOMAIN obj.map THEN Ok(obj.map[k]) ELSE Raise("KeyError", obj)
      [] Dispatch(obj) = "set" -> Raise("AssertionError", obj)
      [] OTHER -> GetAttr(obj, k)

\* dict.__setitem__, which _error_dict overrides to raise ValueError
DictSetItem(obj, k, value) ==
    IF obj.err THEN Raise("ValueError", obj)
    ELSE Ok([obj EXCEPT !.map = MapPut(obj.map, k, value)])

\* addItem overwriting what it finds at the key of a mapping or the name
\* of an attribute
addItemOverwriting(obj, k, value) ==
    CASE Dispatch(obj) = "seq" ->
            IF ~k.isInt THEN Raise("TypeError", obj)
            ELSE Ok([obj EXCEPT !.seq = ListInsert(obj.seq, k.i, value)])
      [] Dispatch(obj) = "map" -> DictSetItem(obj, k, value)
      [] Dispatch(obj) = "set" -> Ok([obj EXCEPT !.mem = obj.mem \cup {k}])
      [] OTHER -> SetAttr(obj, k, value)

addItem(obj, k, value) ==
    CASE Dispatch(obj) = "seq" ->
            IF ~k.isInt THEN Raise("TypeError", obj)
            ELSE Ok([obj EXCEPT !.seq = ListInsert(obj.seq, k.i, value)])
      [] Dispatch(obj) = "map" ->
            IF k \in DOMAIN obj.map THEN Raise("AssertionError", obj)
            ELSE DictSetItem(obj, k, value)
      [] Dispatch(obj) = "set" ->
            IF k \in obj.mem THEN Raise("AssertionError", obj)
            ELSE Ok([obj EXCEPT !.mem = obj.mem \cup {k}])
      [] OTHER ->
            IF k.isInt THEN Raise("TypeError", obj)
            ELSE IF HasAttr(obj, k) THEN Raise("AssertionError", obj)
            ELSE SetAttr(obj, k, value)

replaceItem(obj, k, value) ==
    CASE Dispatch(obj) = "seq" ->
            IF ~k.isInt THEN Raise("TypeError", obj)
            ELSE IF ListInRange(obj.seq, k.i)
                 THEN Ok([obj EXCEPT !.seq[ListPos(obj.seq, k.i) + 1] = value])
                 ELSE Raise("IndexError", obj)
      [] Dispatch(obj) = "map" ->
            IF k \notin DOMAIN obj.map THEN Raise("AssertionError", obj)
            ELSE DictSetItem(obj, k, value)
      [] Dispatch(obj) = "set" -> Raise("AssertionError", obj)
      [] OTHER ->
            IF k.isInt THEN Raise("TypeError", obj)
            ELSE IF ~HasAttr(obj, k) THEN Raise("AssertionError", obj)
            ELSE SetAttr(obj, k, value)

removeItem(obj, k) ==
    CASE Dispatch(obj) = "seq" ->
            IF ~k.isInt THEN Raise("TypeError", obj)
            ELSE IF ListInRange(obj.seq, k.i)
                 THEN Ok([obj EXCEPT !.seq = ListDelete(obj.seq, k.i)])
                 ELSE Raise("IndexError", obj)
      [] Dispatch(obj) = "map" ->
            IF k \in DOMAIN obj.map
            THEN Ok([obj EXCEPT !.map = MapDel(obj.map, k)])
            ELSE Raise("KeyError", obj)
      [] Dispatch(obj) = "set" ->
            IF k \in obj.mem THEN Ok([obj EXCEPT !.mem = obj.mem \ {k}])
            ELSE Raise("KeyError", obj)
      [] OTHER -> DelAttr(obj, k)

----------------------------------------------------------------------------
(* Nested access by path *)

\* getNestedItem reporting every failed lookup as a KeyError
RECURSIVE getNestedItemMasked(_, _)
getNestedItemMasked(obj, path) ==
    IF path = <<>> THEN Ok(obj)
    ELSE LET r == getItem(obj, Head(path))
         IN  IF r.err # "none" THEN Raise("KeyError", obj)
             ELSE LET rest == getNestedItemMasked(r.node, Tail(path))
                  IN  IF rest.err # "none" THEN Raise("KeyError", obj) ELSE rest

RECURSIVE getNestedItem(_, _)
getNestedItem(obj, path) ==
    IF path = <<>> THEN Ok(obj)
    ELSE LET r == getItem(obj, Head(path))
         IN  IF r.err # "none" THEN Raise(r.err, obj)
             ELSE LET rest == getNestedItem(r.node, Tail(path))
                  IN  IF rest.err # "none" THEN Raise(rest.err, obj) ELSE rest

\* The slot of obj that getItem(obj, k) read, holding child instead: the
\* value form of mutating the child object in place.
PutChild(obj, k, child) ==
    CASE Dispatch(obj) = "seq" -> [obj EXCEPT !.seq[ListPos(obj.seq, k.i) + 1] = child]
      [] Dispatch(obj) = "map" -> [obj EXCEPT !.map[k] = child]
      [] Dispatch(obj) = "set" -> obj
      [] OTHER -> IF k \in DOMAIN obj.map THEN [obj EXCEPT !.map[k] = child]
                  ELSE [obj EXCEPT !.cls[k] = child]

\* root with the node at path (which exists) replaced by new
RECURSIVE PutNested(_, _, _)
PutNested(root, path, new) ==
    IF path = <<>> THEN new
    ELSE PutChild(root, Head(path),
                  PutNested(getItem(root, Head(path)).node, Tail(path), new))

Front(path) == SubSeq(path, 1, Len(path) - 1)
Last(path) == path[Len(path)]

\* add/replace/removeNestedItem share their shape: resolve the parent,
\* act on the last element.  res is the primitive's outcome on the parent.
NestedApply(obj, path, parent, res) ==
    IF parent.err # "none" THEN Raise(parent.err, obj)
    ELSE IF res.err # "none" THEN Raise(res.err, obj)
    ELSE Ok(PutNested(obj, Front(path), res.node))

addNestedItem(obj, path, value) ==
    LET parent == getNestedItem(obj, Front(path))
    IN  NestedApply(obj, path, parent, addItem(parent.node, Last(path), value))

replaceNestedItem(obj, path, value) ==
    LET parent == getNestedItem(obj, Front(path))
    IN  NestedApply(obj, path, parent, replaceItem(parent.node, Last(path), value))

removeNestedItem(obj, path) ==
    LET parent == getNestedItem(obj, Front(path))
    IN  NestedApply(obj, path, parent, removeItem(parent.node, Last(path)))

----------------------------------------------------------------------------
(* Change and ChangeSet *)

Change(op, path, value) == [op |-> op, path |-> path, value |-> value]

applyChange(change, model) ==
    CASE change.op = "add" -> addNestedItem(model, change.path, change.value)
      [] change.op = "replace" -> replaceNestedItem(model, change.path, change.value)
      [] change.op = "remove" -> removeNestedItem(model, change.path)
      [] OTHER -> Raise("AssertionError", model)

\* ChangeSet.applyChanges: in recorded order, stopping at the first error
\* with the earlier changes applied.
RECURSIVE applyInOrder(_, _)
applyInOrder(changes, model) ==
    IF changes = <<>> THEN Ok(model)
    ELSE LET r == applyChange(Head(changes), model)
         IN  IF r.err # "none" THEN r ELSE applyInOrder(Tail(changes), r.node)

Reversed(s) == [j \in 1..Len(s) |-> s[Len(s) + 1 - j]]

\* A change set object: its list and its class (InverseChangeSet iterates
\* the list reversed).
ChangeSet(changes) == [changes |-> changes, inverse |-> FALSE]
InverseChangeSet(changes) == [changes |-> changes, inverse |-> TRUE]

\* applyChanges going through the list front to back whatever the class
applyChangesInOrder(cs, model) == applyInOrder(cs.changes, model)

applyChanges(cs, model) ==
    IF cs.inverse THEN applyInOrder(Reversed(cs.changes), model)
    ELSE applyInOrder(cs.changes, model)

isEmpty(cs) == cs.changes = <<>>

----------------------------------------------------------------------------
(* Proxies.  A proxy is (model node, manager, path); it is rebuilt on each *)
(* navigation step, so a mutation is addressed by the path of its target   *)
(* container.  A proxy call's outcome: the error raised, the target node   *)
(* as the call left it, and the Change / inverse pair it handed to         *)
(* addChange (rec tells whether it did).                                   *)

NoChange == Change("none", <<>>, NoneNode)

ProxyFail(e, m) ==
    [err |-> e, node |-> m, rec |-> FALSE, change |-> NoChange, inv |-> NoChange]

ProxyDone(m, change, inv) ==
    [err |-> "none", node |-> m, rec |-> TRUE, change |-> change, inv |-> inv]

ProxyNoop(m) ==
    [err |-> "none", node |-> m, rec |-> FALSE, change |-> NoChange, inv |-> NoChange]

\* RecordAfter with addChange called before the model operation
RecordBefore(m, active, res, change, inv) ==
    IF ~active THEN ProxyFail("AssertionError", m)
    ELSE [err |-> res.err, node |-> res.node, rec |-> TRUE,
          change |-> change, inv |-> inv]

\* RecordAfter with ensureCanAddChange called after the model operation
RecordUnguarded(m, active, res, change, inv) ==
    IF res.err # "none" THEN ProxyFail(res.err, m)
    ELSE IF ~active THEN ProxyFail("AssertionError", res.node)
    ELSE ProxyDone(res.node, change, inv)

\* The tail of every mutating proxy method: ensureCanAddChange, the model
\* operation (res is its outcome), then addChange.
RecordAfter(m, active, res, change, inv) ==
    IF ~active THEN ProxyFail("AssertionError", m)
    ELSE IF res.err # "none" THEN ProxyFail(res.err, m)
    ELSE ProxyDone(res.node, change, inv)

genericSetItem(m, path, key, value, active) ==
    LET h == hasItem(m, key)
        p == Append(path, key)
    IN  IF h.err # "none" THEN ProxyFail(h.err, m)
        ELSE IF h.has
        THEN LET old == getItem(m, key)
             IN  IF old.err # "none" THEN ProxyFail(old.err, m)
                 ELSE RecordAfter(m, active, replaceItem(m, key, value),
                                  Change("replace", p, value),
                                  Change("replace", p, old.node))
        ELSE IF key.isInt THEN ProxyFail("AssertionError", m)
        ELSE RecordAfter(m, active, addItem(m, key, value),
                         Change("add", p, value),
                         Change("remove", p, NoneNode))

\* _genericDelItem recording an inverse that does not carry the old value
genericDelItemNoOld(m, path, key, active) ==
    LET old == getItem(m, key)
        p == Append(path, key)
    IN  IF old.err # "none" THEN ProxyFail(old.err, m)
        ELSE RecordAfter(m, active, removeItem(m, key),
                         Change("remove", p, NoneNode),
                         Change("add", p, NoneNode))

genericDelItem(m, path, key, active) ==
    LET old == getItem(m, key)
        p == Append(path, key)
    IN  IF old.err # "none" THEN ProxyFail(old.err, m)
        ELSE RecordAfter(m, active, removeItem(m, key),
                         Change("remove", p, NoneNode),
                         Change("add", p, old.node))

\* _normalizeIndex checking the range but handing back the index as given
normalizeIndexRaw(m, index, bias) ==
    LET i == IF index < 0 THEN index + Len(m.seq) ELSE index
    IN  IF 0 <= i /\ i < Len(m.seq) + bias
        THEN [err |-> "none", i |-> index]
        ELSE [err |-> "IndexError", i |-> index]

\* UndoProxySequence._normalizeIndex: i is the normalized index.
normalizeIndex(m, index, bias) ==
    LET i == IF index < 0 THEN index + Len(m.seq) ELSE index
    IN  IF 0 <= i /\ i < Len(m.seq) + bias
        THEN [err |-> "none", i |-> i]
        ELSE [err |-> "IndexError", i |-> i]

\* UndoProxySequence.__getitem__: the item, and the path its proxy carries
seqGetItem(m, path, index) ==
    LET n == normalizeIndex(m, index, 0)
    IN  IF n.err # "none" THEN [err |-> n.err, node |-> NoneNode, path |-> path]
        ELSE [err |-> getItem(m, Index(n.i)).err,
              node |-> getItem(m, Index(n.i)).node,
              path |-> Append(path, Index(n.i))]

seqSetItem(m, path, index, value, active) ==
    LET n == normalizeIndex(m, index, 0)
    IN  IF n.err # "none" THEN ProxyFail(n.err, m)
        ELSE genericSetItem(m, path, Index(n.i), value, active)

seqDelItem(m, path, index, active) ==
    LET n == normalizeIndex(m, index, 0)
    IN  IF n.err # "none" THEN ProxyFail(n.err, m)
        ELSE genericDelItem(m, path, Index(n.i), active)

\* insert normalizing its index as __setitem__ does, without bias
seqInsertNoBias(m, path, index, value, active) ==
    LET n == normalizeIndex(m, index, 0)
        p == Append(path, Index(n.i))
    IN  IF n.err # "none" THEN ProxyFail(n.err, m)
        ELSE RecordAfter(m, active,
                         Ok([m EXCEPT !.seq = ListInsert(m.seq, n.i, value)]),
                         Change("add", p, value),
                         Change("remove", p, NoneNode))

seqInsert(m, path, index, value, active) ==
    LET n == normalizeIndex(m, index, 1)
        p == Append(path, Index(n.i))
    IN  IF n.err # "none" THEN ProxyFail(n.err, m)
        ELSE RecordAfter(m, active,
                         Ok([m EXCEPT !.seq = ListInsert(m.seq, n.i, value)]),
                         Change("add", p, value),
                         Change("remove", p, NoneNode))

\* add recording a change whether or not the value is already a member
setAddAlways(m, path, value, active) ==
    RecordAfter(m, active, Ok([m EXCEPT !.mem = m.mem \cup {value}]),
                Change("add", Append(path, value), NoneNode),
                Change("remove", Append(path, value), NoneNode))

setAdd(m, path, value, active) ==
    IF value \in m.mem THEN ProxyNoop(m)
    ELSE RecordAfter(m, active, Ok([m EXCEPT !.mem = m.mem \cup {value}]),
                     Change("add", Append(path, value), NoneNode),
                     Change("remove", Append(path, value), NoneNode))

\* discard recording a second removal as its inverse
setDiscardInverseRemove(m, path, value, active) ==
    IF value \notin m.mem THEN ProxyNoop(m)
    ELSE RecordAfter(m, active, Ok([m EXCEPT !.mem = m.mem \ {value}]),
                     Change("remove", Append(path, value), NoneNode),
                     Change("remove", Append(path, value), NoneNode))

setDiscard(m, path, value, active) ==
    IF value \notin m.mem THEN ProxyNoop(m)
    ELSE RecordAfter(m, active, Ok([m EXCEPT !.mem = m.mem \ {value}]),
                     Change("remove", Append(path, value), NoneNode),
                     Change("add", Append(path, value), NoneNode))

\* MutableSet.remove, inherited by UndoProxySet: KeyError for an absent value,
\* discard otherwise.
setRemove(m, path, value, active) ==
    IF value \notin m.mem THEN ProxyFail("KeyError", m)
    ELSE setDiscard(m, path, value, active)

\* UndoProxy with no handler registered for tuple, which is a Sequence
UndoProxyTupleAsSequence(m) ==
    CASE m.kind = "atom" -> "atomic"
      [] m.kind \in {"seq", "tuple"} -> "UndoProxySequence"
      [] m.kind = "map" -> "UndoProxyMapping"
      [] m.kind = "set" -> "UndoProxySet"
      [] m.kind = "call" -> "UndoProxyCallable"
      [] OTHER -> "UndoProxyAttributeObject"

\* UndoProxy: the proxy class chosen for a node ("atomic": returned as is).
UndoProxy(m) ==
    CASE m.kind = "atom" -> "atomic"
      [] m.kind = "tuple" -> "atomic"
      [] m.kind = "seq" -> "UndoProxySequence"
      [] m.kind = "map" -> "UndoProxyMapping"
      [] m.kind = "set" -> "UndoProxySet"
      [] m.kind = "call" -> "UndoProxyCallable"
      [] OTHER -> "UndoProxyAttributeObject"

\* The keys under which a proxy's __getitem__ / __getattr__ finds children.
ChildKeys(m) ==
    CASE m.kind = "seq" -> {Index(j - 1) : j \in 1..Len(m.seq)}
      [] m.kind = "map" -> DOMAIN m.map
      [] m.kind = "obj" -> (DOMAIN m.map) \cup (DOMAIN m.cls)
      [] OTHER -> {}

\* The paths at which navigation from the root proxy yields a proxy.
RECURSIVE ProxyPaths(_)
ProxyPaths(m) ==
    IF UndoProxy(m) = "atomic" THEN {}
    ELSE {<<>>} \cup
         UNION { { <<k>> \o p : p \in ProxyPaths(getItem(m, k).node) } : k \in ChildKeys(m) }

----------------------------------------------------------------------------
(* Inputs *)

Values == {Atom(2)}
MapKeys == {Key("a"), Index(1)}
AttrNames == {Key("x"), Key("y")}
SetValues == {Index(1), Index(2)}
Infos == {"A"}
\* test_undoInfo: change sets opened with different infos
InfoPairs == {"A", "B"}
\* indices for a sequence: in range, negative, and out of range at both ends
Indices(m) == (0 - Len(m.seq) - 1) .. (Len(m.seq) + 1)

\* test_module_docstring_example: a list holding a dict
ModelList == SeqNode(<<MapNode([k \in {Key("a")} |-> Atom(1)])>>)
\* Examples/glyphUndo.py Point: a dataclass whose field x has a default,
\* which the class keeps as a class attribute
ModelPoint == ObjNode([k \in {Key("x")} |-> Atom(1)], [k \in {Key("x")} |-> Atom(2)])
\* test_rollback_after_error: a container holding an _error_dict
ModelError ==
    MapNode([k \in {Key("a"), Key("e")} |->
                IF k = Key("a") THEN Atom(1) ELSE ErrorDict(EmptyMap)])
\* test_set
ModelSet == SetNode({Index(1)})
\* _AttributeObject: an object whose class has a method that only computes,
\* and one that stores its argument in the attribute y of the object
ModelMethods ==
    ObjNode(EmptyMap,
            [k \in {Key("someMethod"), Key("store")} |->
                IF k = Key("someMethod") THEN CallNode(2, {})
                ELSE CallNode(0, {Key("y")})])
\* test_callable: the argument of the call
CallArgs == {3}
\* test_list_remove_double: a list of distinct items
ModelPair == SeqNode(<<Atom(0), Atom(1)>>)
\* test_tuple_atomic: a tuple stored as an item
TupleValue == TupleNode(<<Atom(3), Atom(4)>>)
\* test_tuple_atomic: the values assigned to an item, a number or a tuple
OrderValues == {Atom(2), TupleValue}
\* test_UndoProxy_dispatch: a node of every type
SampleNodes ==
    {NoneNode, Atom(1), TupleValue, ModelPair, ModelSet, ModelPoint,
     MapNode(EmptyMap), CallNode(2, {})}

Models == {NoneNode, ModelList, ModelPoint, ModelError, ModelSet}

----------------------------------------------------------------------------
(* The UndoManager *)

VARIABLES
    modelObject,     \* self._modelObject, NoneNode while it is None
    undoStack,       \* self.undoStack
    redoStack,       \* self.redoStack
    currentChanges,  \* self._currentChanges: <<>> is None, <<entry>> the tuple
    lastOp,          \* the call made last
    raised,          \* the error that call raised, "none" if it returned
    opened,          \* the model as it was when the active change set was
                     \* opened, or as it was handed to setModel after that,
                     \* and the info the change set was opened with
                     \* (Closed while none is active)
    modelSet,        \* a setModel call has returned
    given,           \* the model as it was when setModel took it
    stacksBefore,    \* <<undoStack, redoStack>> as the last call found them,
                     \* when that call was undo or redo (<<>> otherwise)
    undoShadow,      \* per undo entry: the model before and after its changes
    redoShadow,      \* the same for the redo stack
    popped,          \* the shadow of the entry the last call popped (undo, redo)
    discarded,       \* the redo entries the last call threw away
    monitored,       \* the change sets handed to a change monitor so far
    returned         \* what the last call of a callable proxy returned
                     \* (NoneNode after any other call)

vars == <<modelObject, undoStack, redoStack, currentChanges,
          lastOp, raised, opened, modelSet, given, undoShadow, redoShadow,
          popped, discarded, monitored, returned, stacksBefore>>

Entry(info, changeSet, invChangeSet) ==
    [info |-> info, changeSet |-> changeSet, invChangeSet |-> invChangeSet]

active == currentChanges # <<>>

Closed == [model |-> NoneNode, info |-> "None"]

RECURSIVE CountChanges(_)
CountChanges(stack) ==
    IF stack = <<>> THEN 0
    ELSE Len(Head(stack).changeSet.changes) + CountChanges(Tail(stack))

TotalChanges ==
    CountChanges(undoStack) + CountChanges(redoStack) + CountChanges(currentChanges)

Init ==
    /\ modelObject = NoneNode
    /\ undoStack = <<>>
    /\ redoStack = <<>>
    /\ currentChanges = <<>>
    /\ lastOp = "init"
    /\ raised = "none"
    /\ opened = Closed
    /\ modelSet = FALSE
    /\ given = NoneNode
    /\ stacksBefore = <<>>
    /\ undoShadow = <<>>
    /\ redoShadow = <<>>
    /\ popped = <<>>
    /\ discarded = 0
    /\ monitored = <<>>
    /\ returned = NoneNode

Called(op, e) == lastOp' = op /\ raised' = e /\ returned' = NoneNode

\* what a call leaves in popped and discarded when it pops and discards nothing
Plain == popped' = <<>> /\ discarded' = 0 /\ stacksBefore' = <<>>

setModel(model) ==
    IF modelObject # NoneNode
    THEN /\ Called("setModel", "AssertionError")
         /\ UNCHANGED <<modelObject, modelSet, given>>
    ELSE /\ Called("setModel", "none")
         /\ modelObject' = model
         /\ modelSet' = TRUE
         /\ given' = model

SetModelOf(models) ==
    \E model \in models :
        /\ setModel(model)
        /\ opened' = IF active /\ modelObject = NoneNode
                     THEN [opened EXCEPT !.model = model] ELSE opened
        /\ Plain
        /\ UNCHANGED <<undoStack, redoStack, currentChanges,
                       undoShadow, redoShadow, monitored>>

SetModel == SetModelOf(Models)

\* newChangeSet without the check for an active change set
newChangeSetUnguarded(op, info) ==
    /\ Called(op, "none")
    /\ currentChanges' = <<Entry(info, ChangeSet(<<>>), InverseChangeSet(<<>>))>>
    /\ opened' = [model |-> modelObject, info |-> info]

newChangeSet(op, info) ==
    IF active
    THEN /\ Called(op, "UndoManagerError")
         /\ UNCHANGED <<currentChanges, opened>>
    ELSE /\ Called(op, "none")
         /\ currentChanges' = <<Entry(info, ChangeSet(<<>>), InverseChangeSet(<<>>))>>
         /\ opened' = [model |-> modelObject, info |-> info]

\* NewChangeSet with the redo stack cleared as soon as a change set is started
NewChangeSetClearingRedo ==
    \E info \in Infos :
        /\ active \/ Len(undoStack) < MaxStack
        /\ newChangeSet("newChangeSet", info)
        /\ redoStack' = IF active THEN redoStack ELSE <<>>
        /\ redoShadow' = IF active THEN redoShadow ELSE <<>>
        /\ Plain
        /\ UNCHANGED <<modelObject, undoStack, modelSet, given, monitored, undoShadow>>

\* Also ChangeSetContextManager.__enter__, which only makes this call;
\* when it raises, neither the block nor __exit__ runs.
NewChangeSetWith(infos) ==
    \E info \in infos :
        /\ active \/ Len(undoStack) < MaxStack
        /\ newChangeSet("newChangeSet", info)
        /\ Plain
        /\ UNCHANGED <<modelObject, undoStack, redoStack, modelSet, given, monitored,
                       undoShadow, redoShadow>>

NewChangeSet == NewChangeSetWith(Infos)

\* pushCurrentChangeSet without the isEmpty check
pushAlways(op) ==
    IF ~active
    THEN /\ Called(op, "AssertionError")
         /\ discarded' = 0
         /\ UNCHANGED <<undoStack, redoStack, currentChanges, opened,
                        undoShadow, redoShadow>>
    ELSE /\ Called(op, "none")
         /\ undoStack' = Append(undoStack, currentChanges[1])
         /\ redoStack' = <<>>
         /\ undoShadow' = Append(undoShadow,
                                 [pre |-> opened.model, post |-> modelObject,
                                  info |-> opened.info])
         /\ redoShadow' = <<>>
         /\ discarded' = Len(redoStack)
         /\ currentChanges' = <<>>
         /\ opened' = Closed

\* pushCurrentChangeSet without the reset of the redo stack
pushKeepingRedo(op) ==
    IF ~active
    THEN /\ Called(op, "AssertionError")
         /\ discarded' = 0
         /\ UNCHANGED <<undoStack, redoStack, currentChanges, opened,
                        undoShadow, redoShadow>>
    ELSE /\ Called(op, "none")
         /\ discarded' = 0
         /\ IF ~isEmpty(currentChanges[1].changeSet)
            THEN /\ undoStack' = Append(undoStack, currentChanges[1])
                 /\ undoShadow' = Append(undoShadow,
                                         [pre |-> opened.model, post |-> modelObject,
                                  info |-> opened.info])
                 /\ UNCHANGED <<redoStack, redoShadow>>
            ELSE UNCHANGED <<undoStack, redoStack, undoShadow, redoShadow>>
         /\ currentChanges' = <<>>
         /\ opened' = Closed

\* pushCurrentChangeSet returning silently when no change set is active
pushUnpaired(op) ==
    IF ~active
    THEN /\ Called(op, "none")
         /\ discarded' = 0
         /\ UNCHANGED <<undoStack, redoStack, currentChanges, opened,
                        undoShadow, redoShadow>>
    ELSE /\ Called(op, "none")
         /\ IF ~isEmpty(currentChanges[1].changeSet)
            THEN /\ undoStack' = Append(undoStack, currentChanges[1])
                 /\ redoStack' = <<>>
                 /\ undoShadow' = Append(undoShadow,
                                         [pre |-> opened.model, post |-> modelObject,
                                          info |-> opened.info])
                 /\ redoShadow' = <<>>
                 /\ discarded' = Len(redoStack)
            ELSE /\ discarded' = 0
                 /\ UNCHANGED <<undoStack, redoStack, undoShadow, redoShadow>>
         /\ currentChanges' = <<>>
         /\ opened' = Closed

pushCurrentChangeSet(op) ==
    IF ~active
    THEN /\ Called(op, "AssertionError")
         /\ discarded' = 0
         /\ UNCHANGED <<undoStack, redoStack, currentChanges, opened,
                        undoShadow, redoShadow>>
    ELSE /\ Called(op, "none")
         /\ IF ~isEmpty(currentChanges[1].changeSet)
            THEN /\ undoStack' = Append(undoStack, currentChanges[1])
                 /\ redoStack' = <<>>
                 /\ undoShadow' = Append(undoShadow,
                                         [pre |-> opened.model, post |-> modelObject,
                                  info |-> opened.info])
                 /\ redoShadow' = <<>>
                 /\ discarded' = Len(redoStack)
            ELSE /\ discarded' = 0
                 /\ UNCHANGED <<undoStack, redoStack, undoShadow, redoShadow>>
         /\ currentChanges' = <<>>
         /\ opened' = Closed

\* Also ChangeSetContextManager.__exit__(None, None, None): the block of
\* "with um.changeSet():" ran to its end.
PushCurrentChangeSet ==
    /\ pushCurrentChangeSet("pushCurrentChangeSet")
    /\ popped' = <<>>
    /\ stacksBefore' = <<>>
    /\ UNCHANGED <<modelObject, modelSet, given, monitored>>

\* rolledBack with the slot cleared whether or not the replay returned
rolledBackClearing(r) ==
    [err |-> r.err, model |-> r.node, current |-> <<>>, opened |-> Closed]

\* The outcome of rollbackCurrentChangeSet: unpacking None is a TypeError;
\* the slot is cleared only after the inverse changes have been applied.
\* r is the outcome of applying the inverse change set
rolledBack(r) ==
    IF r.err # "none"
    THEN [err |-> r.err, model |-> r.node,
          current |-> currentChanges, opened |-> opened]
    ELSE [err |-> "none", model |-> r.node,
          current |-> <<>>, opened |-> Closed]

rollbackResult ==
    IF ~active
    THEN [err |-> "TypeError", model |-> modelObject,
          current |-> currentChanges, opened |-> opened]
    ELSE rolledBack(applyChanges(currentChanges[1].invChangeSet, modelObject))

RollbackCurrentChangeSet ==
    \E res \in {rollbackResult} :
        /\ Called("rollbackCurrentChangeSet", res.err)
        /\ modelObject' = res.model
        /\ currentChanges' = res.current
        /\ opened' = res.opened
        /\ Plain
        /\ UNCHANGED <<undoStack, redoStack, modelSet, given, monitored,
                       undoShadow, redoShadow>>

\* ChangeSetContextManager.__exit__(type, value, traceback): the error the
\* last call in the block raised leaves the block; __exit__ returns None, so
\* it goes on propagating, unless the rollback raises an error of its own.
ChangeSetExitError ==
    \E res \in {rollbackResult} :
        /\ active
        /\ raised # "none"
        /\ lastOp' = "exitError"
        /\ returned' = NoneNode
        /\ raised' = IF res.err # "none" THEN res.err ELSE raised
        /\ modelObject' = res.model
        /\ currentChanges' = res.current
        /\ opened' = res.opened
        /\ Plain
        /\ UNCHANGED <<undoStack, redoStack, modelSet, given, monitored,
                       undoShadow, redoShadow>>

(* undo / redo *)

\* undoInfo peeking at the bottom of the stack
undoInfoBottom == IF undoStack # <<>> THEN Head(undoStack).info ELSE "None"

undoInfo == IF undoStack # <<>> THEN Last(undoStack).info ELSE "None"
redoInfo == IF redoStack # <<>> THEN Last(redoStack).info ELSE "None"

\* moveEntry pushing the popped entry as it is, its sets not exchanged
moveEntryUnswapped(popStack, pushStack, e, r) ==
    IF r.err # "none"
    THEN [err |-> r.err, pop |-> Front(popStack), push |-> pushStack,
          model |-> r.node]
    ELSE [err |-> "none", pop |-> Front(popStack),
          push |-> Append(pushStack, e), model |-> r.node]

\* moveEntry pushing the swapped entry whether or not applying it returned
moveEntryRegardless(popStack, pushStack, e, r) ==
    [err |-> r.err, pop |-> Front(popStack),
     push |-> Append(pushStack, Entry(e.info, e.invChangeSet, e.changeSet)),
     model |-> r.node]

\* moveEntry pushing the entry with the applied set in both places
moveEntryOneSided(popStack, pushStack, e, r) ==
    IF r.err # "none"
    THEN [err |-> r.err, pop |-> Front(popStack), push |-> pushStack,
          model |-> r.node]
    ELSE [err |-> "none", pop |-> Front(popStack),
          push |-> Append(pushStack, Entry(e.info, e.invChangeSet, e.invChangeSet)),
          model |-> r.node]

\* _performUndo once its checks have passed: the entry e is popped, r is
\* the outcome of applying its inverse change set; the swapped entry is
\* pushed only when that returned.
moveEntry(popStack, pushStack, e, r) ==
    IF r.err # "none"
    THEN [err |-> r.err, pop |-> Front(popStack), push |-> pushStack,
          model |-> r.node]
    ELSE [err |-> "none", pop |-> Front(popStack),
          push |-> Append(pushStack, Entry(e.info, e.invChangeSet, e.changeSet)),
          model |-> r.node]

\* _performUndo returning silently on an empty stack instead of raising
performUndoSilent(popStack, pushStack) ==
    IF popStack = <<>>
    THEN [err |-> "none", pop |-> popStack, push |-> pushStack,
          model |-> modelObject]
    ELSE IF active
    THEN [err |-> "UndoManagerError", pop |-> popStack, push |-> pushStack,
          model |-> modelObject]
    ELSE moveEntry(popStack, pushStack, Last(popStack),
                   applyChanges(Last(popStack).invChangeSet, modelObject))

\* _performUndo without the check for an active change set
performUndoWhileActive(popStack, pushStack) ==
    IF popStack = <<>>
    THEN [err |-> "UndoManagerError", pop |-> popStack, push |-> pushStack,
          model |-> modelObject]
    ELSE moveEntry(popStack, pushStack, Last(popStack),
                   applyChanges(Last(popStack).invChangeSet, modelObject))

performUndo(popStack, pushStack) ==
    IF popStack = <<>>
    THEN [err |-> "UndoManagerError", pop |-> popStack, push |-> pushStack,
          model |-> modelObject]
    ELSE IF active
    THEN [err |-> "UndoManagerError", pop |-> popStack, push |-> pushStack,
          model |-> modelObject]
    ELSE moveEntry(popStack, pushStack, Last(popStack),
                   applyChanges(Last(popStack).invChangeSet, modelObject))

\* the shadow stacks follow the entries
MoveShadow(res, popShadow, pushShadow) ==
    IF Len(res.pop) = Len(popShadow) THEN <<popShadow, pushShadow>>
    ELSE IF res.err # "none" THEN <<Front(popShadow), pushShadow>>
    ELSE <<Front(popShadow), Append(pushShadow, Last(popShadow))>>

PoppedShadow(res, popShadow) ==
    IF Len(res.pop) = Len(popShadow) THEN <<>> ELSE <<Last(popShadow)>>

Undo ==
    \E res \in {performUndo(undoStack, redoStack)} :
    \E sh \in {MoveShadow(res, undoShadow, redoShadow)} :
        /\ Called("undo", res.err)
        /\ undoStack' = res.pop
        /\ redoStack' = res.push
        /\ modelObject' = res.model
        /\ undoShadow' = sh[1]
        /\ redoShadow' = sh[2]
        /\ popped' = PoppedShadow(res, undoShadow)
        /\ stacksBefore' = <<undoStack, redoStack>>
        /\ discarded' = 0
        /\ UNCHANGED <<currentChanges, opened, modelSet, given, monitored>>

Redo ==
    \E res \in {performUndo(redoStack, undoStack)} :
    \E sh \in {MoveShadow(res, redoShadow, undoShadow)} :
        /\ Called("redo", res.err)
        /\ redoStack' = res.pop
        /\ undoStack' = res.push
        /\ modelObject' = res.model
        /\ redoShadow' = sh[1]
        /\ undoShadow' = sh[2]
        /\ popped' = PoppedShadow(res, redoShadow)
        /\ stacksBefore' = <<undoStack, redoStack>>
        /\ discarded' = 0
        /\ UNCHANGED <<currentChanges, opened, modelSet, given, monitored>>

(* Proxy mutations *)

\* addChange appending to the forward list only
addChangeForwardOnly(entry, change, invChange) ==
    Entry(entry.info,
          [entry.changeSet EXCEPT !.changes = Append(@, change)],
          entry.invChangeSet)

addChange(entry, change, invChange) ==
    Entry(entry.info,
          [entry.changeSet EXCEPT !.changes = Append(@, change)],
          [entry.invChangeSet EXCEPT !.changes = Append(@, invChange)])

\* A mutating call on the proxy at path, with outcome res.
Mutate(op, path, res) ==
    /\ res.rec => /\ Len(currentChanges[1].changeSet.changes) < MaxChanges
                  /\ TotalChanges < MaxTotal
    /\ Called(op, res.err)
    /\ modelObject' = PutNested(modelObject, path, res.node)
    /\ currentChanges' = IF res.rec
                         THEN <<addChange(currentChanges[1], res.change, res.inv)>>
                         ELSE currentChanges
    /\ Plain
    /\ UNCHANGED <<undoStack, redoStack, opened, modelSet, given, monitored,
                   undoShadow, redoShadow>>

\* UndoManager.ensureCanAddChange(): the error it raises
ensureCanAddChange == IF ~active THEN "AssertionError" ELSE "none"

\* ensureCanAddChange called by a client, as a proxy class of its own does
EnsureCanAddChange ==
    /\ Called("ensureCanAddChange", ensureCanAddChange)
    /\ Plain
    /\ UNCHANGED <<modelObject, undoStack, redoStack, currentChanges, opened,
                   modelSet, given, monitored, undoShadow, redoShadow>>

\* UndoManager.addChange(change, invChange): the error it raises and the
\* slot as it leaves it
addChangeCall(change, invChange) ==
    IF ~active
    THEN [err |-> "AssertionError", current |-> currentChanges]
    ELSE [err |-> "none",
          current |-> <<addChange(currentChanges[1], change, invChange)>>]

\* addChange called by a client with a Replace of the first item and its
\* inverse; the model is not touched by the call
AddChange ==
    \E value \in Values, old \in Values \cup {Atom(0)} :
        \E res \in {addChangeCall(Change("replace", <<Index(0)>>, value),
                                  Change("replace", <<Index(0)>>, old))} :
            /\ active => /\ Len(currentChanges[1].changeSet.changes) < MaxChanges
                         /\ TotalChanges < MaxTotal
            /\ Called("addChange", res.err)
            /\ currentChanges' = res.current
            /\ Plain
            /\ UNCHANGED <<modelObject, undoStack, redoStack, opened, modelSet, given,
                           monitored, undoShadow, redoShadow>>

\* The proxies of one class that navigation from the root proxy reaches,
\* as <<path, model node>>.
Proxies(class) ==
    { t \in { <<path, getNestedItem(modelObject, path).node>> :
                 path \in ProxyPaths(modelObject) } : UndoProxy(t[2]) = class }

SeqSetItemOf(values) ==
    \E t \in Proxies("UndoProxySequence") :
        \E index \in Indices(t[2]), value \in values :
            Mutate("seqSetItem", t[1], seqSetItem(t[2], t[1], index, value, active))

SeqSetItem == SeqSetItemOf(Values)

SeqDelItem ==
    \E t \in Proxies("UndoProxySequence") :
        \E index \in Indices(t[2]) :
            Mutate("seqDelItem", t[1], seqDelItem(t[2], t[1], index, active))

SeqInsertOf(values) ==
    \E t \in Proxies("UndoProxySequence") :
        /\ Len(t[2].seq) < MaxLen
        /\ \E index \in Indices(t[2]), value \in values :
              Mutate("seqInsert", t[1], seqInsert(t[2], t[1], index, value, active))

SeqInsert == SeqInsertOf(Values)

MapSetItemOf(values) ==
    \E t \in Proxies("UndoProxyMapping") :
        \E key \in MapKeys, value \in values :
            Mutate("mapSetItem", t[1], genericSetItem(t[2], t[1], key, value, active))

MapSetItem == MapSetItemOf(Values)

MapDelItem ==
    \E t \in Proxies("UndoProxyMapping") :
        \E key \in MapKeys :
            Mutate("mapDelItem", t[1], genericDelItem(t[2], t[1], key, active))

AttrSet ==
    \E t \in Proxies("UndoProxyAttributeObject") :
        \E attr \in AttrNames, value \in Values :
            Mutate("attrSet", t[1], genericSetItem(t[2], t[1], attr, value, active))

AttrDel ==
    \E t \in Proxies("UndoProxyAttributeObject") :
        \E attr \in AttrNames :
            Mutate("attrDel", t[1], genericDelItem(t[2], t[1], attr, active))

\* the method at path of the model called with x: the model as the callee
\* left it and what it returned
callableCall(root, path, x) ==
    LET f == getNestedItem(root, path).node
        self == getNestedItem(root, Front(path)).node
    IN  [err |-> "none",
         model |-> PutNested(root, Front(path),
                             [self EXCEPT !.map =
                                 [k \in (DOMAIN self.map) \cup f.mem |->
                                     IF k \in f.mem THEN Atom(x) ELSE self.map[k]]]),
         ret |-> Atom(x + f.val)]

\* a call through the callable proxy that asks for an active change set and
\* records a Change for what the callee did
CallRecording ==
    \E t \in Proxies("UndoProxyCallable") :
        \E x \in CallArgs :
            /\ Len(t[1]) > 0
            /\ Mutate("call", Front(t[1]),
                      RecordAfter(getNestedItem(modelObject, Front(t[1])).node, active,
                                  Ok(getNestedItem(callableCall(modelObject, t[1], x).model,
                                                   Front(t[1])).node),
                                  Change("replace", t[1], Atom(x)),
                                  Change("replace", t[1], Atom(x))))

\* UndoProxyCallable.__call__
Call ==
    \E t \in Proxies("UndoProxyCallable") :
        \E x \in CallArgs :
            \E res \in {callableCall(modelObject, t[1], x)} :
                /\ Len(t[1]) > 0
                /\ lastOp' = "call"
                /\ raised' = res.err
                /\ returned' = res.ret
                /\ modelObject' = res.model
                /\ Plain
                /\ UNCHANGED <<undoStack, redoStack, currentChanges, opened,
                               modelSet, given, monitored, undoShadow, redoShadow>>

SetAdd ==
    \E t \in Proxies("UndoProxySet") :
        \E value \in SetValues :
            Mutate("setAdd", t[1], setAdd(t[2], t[1], value, active))

SetDiscard ==
    \E t \in Proxies("UndoProxySet") :
        \E value \in SetValues :
            Mutate("setDiscard", t[1], setDiscard(t[2], t[1], value, active))

SetRemove ==
    \E t \in Proxies("UndoProxySet") :
        \E value \in SetValues :
            Mutate("setRemove", t[1], setRemove(t[2], t[1], value, active))

Next ==
    \/ SetModel
    \/ NewChangeSet
    \/ PushCurrentChangeSet
    \/ RollbackCurrentChangeSet
    \/ ChangeSetExitError
    \/ Undo
    \/ Redo
    \/ SeqSetItem
    \/ SeqDelItem
    \/ SeqInsert
    \/ MapSetItem
    \/ MapDelItem
    \/ AttrSet
    \/ AttrDel
    \/ SetAdd
    \/ SetDiscard
    \/ SetRemove

Spec == Init /\ [][Next]_vars

\* The manager over a set model, with change sets opened with either of
\* two infos.
NextInfo ==
    \/ SetModelOf({ModelSet})
    \/ NewChangeSetWith(InfoPairs)
    \/ PushCurrentChangeSet
    \/ RollbackCurrentChangeSet
    \/ ChangeSetExitError
    \/ Undo
    \/ Redo
    \/ SetAdd
    \/ SetDiscard
    \/ SetRemove

SpecInfo == Init /\ [][NextInfo]_vars

\* The manager over a list, with every mutation of a list proxy.
NextOrder ==
    \/ SetModelOf({ModelPair})
    \/ NewChangeSet
    \/ PushCurrentChangeSet
    \/ Undo
    \/ Redo
    \/ SeqSetItem
    \/ SeqDelItem
    \/ SeqInsert

SpecOrder == Init /\ [][NextOrder]_vars

\* The manager over lists and dictionaries, whose items are assigned a number
\* or a tuple.
NextTuple ==
    \/ SetModelOf({ModelList, ModelPair})
    \/ NewChangeSet
    \/ PushCurrentChangeSet
    \/ Undo
    \/ Redo
    \/ SeqSetItemOf(OrderValues)
    \/ MapSetItemOf(OrderValues)

SpecTuple == Init /\ [][NextTuple]_vars

\* The manager over an object with methods, which are called through the
\* callable proxy.
NextCall ==
    \/ SetModelOf({ModelMethods})
    \/ NewChangeSet
    \/ PushCurrentChangeSet
    \/ RollbackCurrentChangeSet
    \/ Undo
    \/ AttrSet
    \/ Call

SpecCall == Init /\ [][NextCall]_vars

\* The manager over lists, dictionaries and attribute objects: change sets,
\* the mutations of their proxies, and undo.
NextProxy ==
    \/ SetModelOf({ModelList, ModelPoint, ModelError})
    \/ NewChangeSet
    \/ PushCurrentChangeSet
    \/ Undo
    \/ SeqSetItem
    \/ SeqDelItem
    \/ SeqInsert
    \/ MapSetItem
    \/ MapDelItem
    \/ AttrSet
    \/ AttrDel

SpecProxy == Init /\ [][NextProxy]_vars

\* The manager called directly, as by a proxy class registered by a client,
\* next to the item assignments of the sequence proxy and the change set
\* scope left on an error.
NextManager ==
    \/ SetModelOf({ModelPair})
    \/ NewChangeSet
    \/ PushCurrentChangeSet
    \/ RollbackCurrentChangeSet
    \/ ChangeSetExitError
    \/ Undo
    \/ Redo
    \/ EnsureCanAddChange
    \/ AddChange
    \/ SeqSetItem

SpecManager == Init /\ [][NextManager]_vars

\* Every mutation of every proxy class, inside and outside change sets that
\* are committed or left on an error.
NextMutation ==
    \/ SetModel
    \/ NewChangeSet
    \/ PushCurrentChangeSet
    \/ ChangeSetExitError
    \/ SeqSetItem
    \/ SeqDelItem
    \/ SeqInsert
    \/ MapSetItem
    \/ MapDelItem
    \/ AttrSet
    \/ AttrDel
    \/ SetAdd
    \/ SetDiscard
    \/ SetRemove

SpecMutation == Init /\ [][NextMutation]_vars

\* The manager over an object with attributes.
NextObject ==
    \/ SetModelOf({ModelPoint})
    \/ NewChangeSet
    \/ PushCurrentChangeSet
    \/ RollbackCurrentChangeSet
    \/ ChangeSetExitError
    \/ Undo
    \/ Redo
    \/ AttrSet
    \/ AttrDel

SpecObject == Init /\ [][NextObject]_vars

----------------------------------------------------------------------------
(* Properties *)

MutationOps ==
    {"seqSetItem", "seqDelItem", "seqInsert", "mapSetItem", "mapDelItem",
     "attrSet", "attrDel", "setAdd", "setDiscard", "setRemove"}

\* redo() called now would raise
RedoFails == performUndo(redoStack, undoStack).err # "none"

\* the change set being committed by a pushCurrentChangeSet call is non-empty
Committing == active /\ ~isEmpty(currentChanges[1].changeSet)

\* C1: an undo() of a committed change set leaves the model equal to its
\* state at the moment the change set was opened.
C1_UndoRestoresOpeningState ==
    (lastOp = "undo" /\ popped # <<>>) => modelObject = popped[1].pre

\* C2: after a commit, undo() followed immediately by redo() leaves the model
\* equal to its post-commit state.
C2_UndoRedoRestoresCommitted ==
    [][(lastOp = "undo" /\ popped # <<>> /\ lastOp' = "redo")
            => modelObject' = popped[1].post]_vars

\* C3: successive undo() calls revert the committed change sets one at a
\* time in reverse commit order: each leaves the model as it was before the
\* set it popped and as it was just after the commit now on top of the undo
\* stack; successive redo() calls re-apply them in commit order: each leaves
\* the model as it was just after the commit it popped.
C3_UndoRedoStepThroughCommits ==
    /\ (lastOp = "undo" /\ popped # <<>>)
          => /\ modelObject = popped[1].pre
             /\ undoShadow # <<>> => modelObject = Last(undoShadow).post
    /\ (lastOp = "redo" /\ popped # <<>>)
          => /\ modelObject = popped[1].post
             /\ redoShadow # <<>> => modelObject = Last(redoShadow).pre

\* C4: no entry on the undo stack has an empty change list.
C4_NoEmptyEntryOnUndoStack ==
    \A j \in 1..Len(undoStack) : undoStack[j].changeSet.changes # <<>>

\* an empty change set has just been committed, and nothing was pushed
C4_Witness ==
    /\ lastOp = "pushCurrentChangeSet"
    /\ raised = "none"
    /\ modelSet
    /\ undoStack = <<>>

\* C5: opening a change set while one is active fails with UndoManagerError
\* and leaves the active set, its recorded changes, the model and the stacks
\* as they were.
C5_NestedChangeSetRejected ==
    [][(lastOp' = "newChangeSet" /\ active)
            => /\ raised' = "UndoManagerError"
               /\ UNCHANGED <<currentChanges, modelObject, undoStack, redoStack>>]_vars

\* a nested newChangeSet has failed on a set that holds recorded changes
C5_Witness ==
    /\ lastOp = "newChangeSet"
    /\ raised = "UndoManagerError"
    /\ active
    /\ ~isEmpty(currentChanges[1].changeSet)

\* C6: a commit that pushes a new undo entry leaves the redo stack empty:
\* redoInfo() is None and redo() fails.
C6_PushClearsRedo ==
    [][(lastOp' = "pushCurrentChangeSet" /\ Len(undoStack') > Len(undoStack))
            => /\ redoStack' = <<>>
               /\ redoInfo' = "None"
               /\ RedoFails']_vars

\* a commit has just thrown away a non-empty redo stack
C6_Witness ==
    /\ lastOp = "pushCurrentChangeSet"
    /\ raised = "none"
    /\ discarded > 0

\* C7 as stated: once a change set has been started after an undo(), redo()
\* fails from then on (until the next undo()).  redo() fails in the started
\* set, so this says that no call but undo() makes a failing redo() succeed.
C7_Original ==
    [][(RedoFails /\ lastOp' # "undo") => RedoFails']_vars

\* C7 amended: starting a change set, rolling one back and committing an
\* empty one leave the redo stack as it was; committing a non-empty one
\* empties it, and redo() then fails.
C7_OnlyNonEmptyCommitClearsRedo ==
    [][/\ lastOp' \in {"newChangeSet", "rollbackCurrentChangeSet", "exitError"}
            => redoStack' = redoStack
       /\ lastOp' = "pushCurrentChangeSet"
            => IF Committing
               THEN redoStack' = <<>> /\ RedoFails'
               ELSE redoStack' = redoStack]_vars

\* a change set has been started after an undo(), and the redo stack is intact
C7_Witness ==
    /\ lastOp = "newChangeSet"
    /\ raised = "none"
    /\ active
    /\ redoStack # <<>>

\* C8: when an error leaves a change-set block, the model is back in its
\* state at block entry, the undo stack is unchanged and the error that
\* propagates is the one that left the block.
C8_RollbackOnError ==
    [][(lastOp \in MutationOps /\ lastOp' = "exitError")
            => /\ modelObject' = opened.model
               /\ undoStack' = undoStack
               /\ raised' = raised]_vars

\* C9: a proxy mutation that raises records neither a Change nor an inverse.
C9_FailedMutationRecordsNothing ==
    [][(lastOp' \in MutationOps /\ raised' # "none")
            => currentChanges' = currentChanges]_vars

\* the model operation of a mutation has raised inside an active change set
\* that holds an earlier, successful change
C9_Witness ==
    /\ lastOp = "mapSetItem"
    /\ raised = "ValueError"
    /\ active
    /\ ~isEmpty(currentChanges[1].changeSet)

\* C10: once a setModel call has succeeded, every later setModel call fails
\* and leaves the model root unchanged.
C10_SetModelOnce ==
    [][(modelSet /\ lastOp' = "setModel")
            => (raised' # "none" /\ modelObject' = modelObject)]_vars

\* C11 as stated: every mutating proxy call made while no change set is
\* active fails, and leaves the model and both stacks unchanged.
C11_Original ==
    [][(lastOp' \in MutationOps /\ ~active)
            => /\ raised' # "none"
               /\ UNCHANGED <<modelObject, undoStack, redoStack>>]_vars

\* C11 amended: a mutating proxy call made while no change set is active
\* leaves the model and both stacks unchanged; it fails, unless it is a set
\* add or discard that found nothing to do, which returns normally.
C11_NoMutationWithoutChangeSet ==
    [][(lastOp' \in MutationOps /\ ~active)
            => /\ UNCHANGED <<modelObject, undoStack, redoStack, currentChanges>>
               /\ raised' = "none" => lastOp' \in {"setAdd", "setDiscard"}]_vars

\* ensureCanAddChange has failed a sequence insert made outside a change set
C11_Witness ==
    /\ lastOp = "seqInsert"
    /\ raised = "AssertionError"
    /\ ~active

\* C12: undo() on an empty undo stack, and redo() on an empty redo stack,
\* fail with UndoManagerError and leave the model and both stacks unchanged.
C12_EmptyStackRejected ==
    [][/\ (lastOp' = "undo" /\ undoStack = <<>>)
            => /\ raised' = "UndoManagerError"
               /\ UNCHANGED <<modelObject, undoStack, redoStack>>
       /\ (lastOp' = "redo" /\ redoStack = <<>>)
            => /\ raised' = "UndoManagerError"
               /\ UNCHANGED <<modelObject, undoStack, redoStack>>]_vars

\* undo() has failed on an empty undo stack, with no change set active and
\* an entry waiting on the redo stack
C12_Witness ==
    /\ lastOp = "undo"
    /\ raised = "UndoManagerError"
    /\ ~active
    /\ undoStack = <<>>
    /\ redoStack # <<>>

\* C13: undo() and redo() called while a change set is active fail with
\* UndoManagerError, also when their stack is non-empty, and leave the
\* model, both stacks and the active change set unchanged.
C13_UndoRedoRejectedWhileActive ==
    [][(lastOp' \in {"undo", "redo"} /\ active)
            => /\ raised' = "UndoManagerError"
               /\ UNCHANGED <<modelObject, undoStack, redoStack, currentChanges>>]_vars

\* undo() has failed inside a change set that holds a recorded change, with
\* an entry on the undo stack
C13_Witness ==
    /\ lastOp = "undo"
    /\ raised = "UndoManagerError"
    /\ active
    /\ ~isEmpty(currentChanges[1].changeSet)
    /\ undoStack # <<>>

\* the info of the entry on top of a stack, as recorded when its change set
\* was opened
OpenedInfo(shadow) == IF shadow = <<>> THEN "None" ELSE Last(shadow).info

\* C14: undoInfo() and redoInfo() return the info given when the top entry's
\* change set was opened, None on an empty stack; after a successful undo()
\* redoInfo() is what undoInfo() was just before, and after a successful
\* redo() undoInfo() is what redoInfo() was just before.
C14_InfoTravelsWithEntry ==
    [][/\ undoInfo' = OpenedInfo(undoShadow')
       /\ redoInfo' = OpenedInfo(redoShadow')
       /\ (lastOp' = "undo" /\ raised' = "none") => redoInfo' = undoInfo
       /\ (lastOp' = "redo" /\ raised' = "none") => undoInfo' = redoInfo]_vars

\* of two entries opened with different infos, the later one has been undone
C14_Witness ==
    /\ lastOp = "undo"
    /\ raised = "none"
    /\ undoInfo = "A"
    /\ redoInfo = "B"

\* the entry e with its forward and inverse sets exchanged
Swapped(e) == Entry(e.info, e.invChangeSet, e.changeSet)

\* C15: a successful undo() removes exactly the top entry of the undo stack
\* and pushes onto the redo stack one entry with the same info and with the
\* forward and inverse sets exchanged; redo() does the same from the redo
\* stack to the undo stack; each changes each stack's length by one and
\* keeps the sum of the lengths.
C15_EntryMovesSwapped ==
    [][/\ (lastOp' = "undo" /\ raised' = "none")
            => /\ undoStack' = Front(undoStack)
               /\ redoStack' = Append(redoStack, Swapped(Last(undoStack)))
               /\ Len(undoStack') = Len(undoStack) - 1
               /\ Len(redoStack') = Len(redoStack) + 1
       /\ (lastOp' = "redo" /\ raised' = "none")
            => /\ redoStack' = Front(redoStack)
               /\ undoStack' = Append(undoStack, Swapped(Last(redoStack)))
               /\ Len(redoStack') = Len(redoStack) - 1
               /\ Len(undoStack') = Len(undoStack) + 1
       /\ (lastOp' \in {"undo", "redo"} /\ raised' = "none")
            => Len(undoStack') + Len(redoStack') = Len(undoStack) + Len(redoStack)]_vars

\* an undo() has moved an entry onto the redo stack, below it another entry
\* undone before, and its first set is the inverse one
C15_Witness ==
    /\ lastOp = "undo"
    /\ raised = "none"
    /\ Len(redoStack) = 2
    /\ Last(redoStack).changeSet.inverse
    /\ ~Last(redoStack).invChangeSet.inverse

\* C16: a change monitor is called exactly once for each committed non-empty
\* change set, with the forward set, and exactly once for each successful
\* undo() or redo(), with the set that was applied; no other call reaches it.
C16_MonitorCalledOncePerChange ==
    [][IF lastOp' = "pushCurrentChangeSet" /\ raised' = "none" /\ Committing
       THEN monitored' = Append(monitored, currentChanges[1].changeSet)
       ELSE IF lastOp' = "undo" /\ raised' = "none"
       THEN monitored' = Append(monitored, Last(undoStack).invChangeSet)
       ELSE IF lastOp' = "redo" /\ raised' = "none"
       THEN monitored' = Append(monitored, Last(redoStack).invChangeSet)
       ELSE monitored' = monitored]_vars

SeqProxies == Proxies("UndoProxySequence")

\* the outcome of insert(index, value) on the sequence proxy t is a success
\* that placed value at pos and recorded Add / Remove at pos
InsertsAt(t, index, value, pos) ==
    LET r == seqInsert(t[2], t[1], index, value, active)
    IN  /\ r.err = "none"
        /\ r.node = [t[2] EXCEPT !.seq = ListInsert(t[2].seq, pos, value)]
        /\ r.rec
        /\ r.change = Change("add", Append(t[1], Index(pos)), value)
        /\ r.inv = Change("remove", Append(t[1], Index(pos)), NoneNode)

\* the outcome of a proxy call is an IndexError that recorded and changed
\* nothing
IndexErrorOnly(r, m) ==
    /\ r.err = "IndexError"
    /\ r.node = m
    /\ ~r.rec

\* C17 as stated: inside a change set, insert(index, item) on a sequence
\* proxy succeeds for every integer index, places the item at the index
\* clamped into [0, length] and records Add at the clamped index.
C17_Original ==
    active =>
        \A t \in SeqProxies : \A index \in Indices(t[2]), value \in Values :
            InsertsAt(t, index, value, ListInsertPos(t[2].seq, index))

\* C17 amended: inside a change set, insert(index, item) with index in
\* [-length, length] places the item at index, or at index + length when
\* index is negative, and records Add at that position; with any other index
\* it fails with IndexError, and nothing is recorded or changed.
C17_InsertNormalizesOrFails ==
    \A t \in SeqProxies : \A index \in Indices(t[2]), value \in Values :
        LET n == Len(t[2].seq)
        IN  IF 0 - n <= index /\ index <= n
            THEN active => InsertsAt(t, index, value,
                                     IF index < 0 THEN index + n ELSE index)
            ELSE IndexErrorOnly(seqInsert(t[2], t[1], index, value, active), t[2])

\* an insert with an index out of range has failed inside a change set
C17_Witness ==
    /\ lastOp = "seqInsert"
    /\ raised = "IndexError"
    /\ active

\* r is the successful outcome of a proxy call inside a change set that left
\* the sequence as seq and recorded a change of kind op at path
RecordedAt(r, m, seq, op, path) ==
    /\ r.err = "none"
    /\ r.node = [m EXCEPT !.seq = seq]
    /\ r.rec
    /\ r.change.op = op
    /\ r.change.path = path
    /\ r.inv.path = path

\* C18: on a sequence proxy of length n, get / set / delete with an index in
\* [-n, n-1] act on the element at the index counted from the end when it is
\* negative, and the path of the item proxy and of every recorded change
\* carries that non-negative index; any other index fails with IndexError,
\* and nothing is recorded or changed.
C18_IndexNormalizedOrRejected ==
    \A t \in SeqProxies : \A index \in Indices(t[2]), value \in Values :
        LET n == Len(t[2].seq)
            pos == IF index < 0 THEN index + n ELSE index
            path == Append(t[1], Index(pos))
        IN  IF 0 - n <= index /\ index <= n - 1
            THEN /\ seqGetItem(t[2], t[1], index) =
                        [err |-> "none", node |-> t[2].seq[pos + 1], path |-> path]
                 /\ active =>
                        /\ RecordedAt(seqSetItem(t[2], t[1], index, value, active), t[2],
                                      [t[2].seq EXCEPT ![pos + 1] = value],
                                      "replace", path)
                        /\ RecordedAt(seqDelItem(t[2], t[1], index, active), t[2],
                                      SubSeq(t[2].seq, 1, pos) \o
                                          SubSeq(t[2].seq, pos + 2, n),
                                      "remove", path)
            ELSE /\ seqGetItem(t[2], t[1], index).err = "IndexError"
                 /\ IndexErrorOnly(seqSetItem(t[2], t[1], index, value, active), t[2])
                 /\ IndexErrorOnly(seqDelItem(t[2], t[1], index, active), t[2])

\* an item was deleted through a sequence proxy: the change was recorded
\* and the model is shorter than when the change set was opened
C18_Witness ==
    /\ lastOp = "seqDelItem"
    /\ raised = "none"
    /\ active
    /\ ~isEmpty(currentChanges[1].changeSet)
    /\ modelObject.kind = "seq"
    /\ opened.model.kind = "seq"
    /\ Len(modelObject.seq) < Len(opened.model.seq)

SetProxies == Proxies("UndoProxySet")

\* r is the outcome of a proxy call that returned normally having recorded
\* and changed nothing
NothingDone(r, m) ==
    /\ r.err = "none"
    /\ r.node = m
    /\ ~r.rec

\* a step that leaves the model, the active change set and both stacks alone
LeavesAllAlone ==
    UNCHANGED <<modelObject, currentChanges, undoStack, redoStack>>

\* C19: on a set proxy, add of a member and discard of a non-member return
\* having changed neither the model nor the active change set, and remove of
\* a non-member raises KeyError having recorded and changed nothing; the
\* change set of a scope is left empty by such calls, and closing a scope
\* whose change set is empty pushes no undo entry.
C19_SetNoOpsRecordNothing ==
    /\ [](\A t \in SetProxies : \A value \in SetValues :
            /\ value \in t[2].mem => NothingDone(setAdd(t[2], t[1], value, active), t[2])
            /\ value \notin t[2].mem =>
                   /\ NothingDone(setDiscard(t[2], t[1], value, active), t[2])
                   /\ LET r == setRemove(t[2], t[1], value, active)
                      IN  r.err = "KeyError" /\ r.node = t[2] /\ ~r.rec)
    /\ [][/\ (/\ lastOp' \in {"setAdd", "setDiscard"}
              /\ raised' = "none"
              /\ modelObject' = modelObject) => LeavesAllAlone
          /\ (lastOp' = "setRemove" /\ raised' = "KeyError") => LeavesAllAlone
          /\ (/\ lastOp' = "pushCurrentChangeSet"
              /\ raised' = "none"
              /\ ~Committing) => UNCHANGED <<undoStack, redoStack>>]_vars

\* add of a member has returned inside a scope whose change set is still
\* empty
C19_Witness ==
    /\ lastOp = "setAdd"
    /\ raised = "none"
    /\ active
    /\ isEmpty(currentChanges[1].changeSet)
    /\ modelObject = opened.model

\* r is the outcome of a set proxy call inside a change set that left the
\* members as mem, recorded a change of kind op and an inverse of kind invOp,
\* both addressing the member by its value as the last path element
SetRecorded(r, t, value, mem, op, invOp) ==
    /\ r.err = "none"
    /\ r.node = [t[2] EXCEPT !.mem = mem]
    /\ r.rec
    /\ r.change = Change(op, Append(t[1], value), NoneNode)
    /\ r.inv = Change(invOp, Append(t[1], value), NoneNode)

\* C20: for a set model, inside a change set add of a non-member adds it
\* and records Add with Remove as inverse, discard and remove of a member
\* remove it and record Remove with Add as inverse, each with the value as
\* last path element; undo() of a committed change set succeeds and leaves
\* the set as it was when the change set was opened, and redo() succeeds and
\* leaves it as it was when the change set was committed.
C20_SetUndoRedoExact ==
    modelObject.kind = "set" =>
        /\ active =>
             \A t \in SetProxies : \A value \in SetValues :
                IF value \in t[2].mem
                THEN /\ SetRecorded(setDiscard(t[2], t[1], value, active), t, value,
                                    t[2].mem \ {value}, "remove", "add")
                     /\ SetRecorded(setRemove(t[2], t[1], value, active), t, value,
                                    t[2].mem \ {value}, "remove", "add")
                ELSE SetRecorded(setAdd(t[2], t[1], value, active), t, value,
                                 t[2].mem \cup {value}, "add", "remove")
        /\ (lastOp = "undo" /\ popped # <<>>)
              => raised = "none" /\ modelObject = popped[1].pre
        /\ (lastOp = "redo" /\ popped # <<>>)
              => raised = "none" /\ modelObject = popped[1].post

\* a change set that changed the members of a set model was undone, and has
\* just been redone
C20_Witness ==
    /\ modelObject.kind = "set"
    /\ lastOp = "redo"
    /\ raised = "none"
    /\ popped # <<>>
    /\ popped[1].pre # popped[1].post
    /\ modelObject = popped[1].post

MapProxies == Proxies("UndoProxyMapping")

\* C21: inside a change set, assigning through a mapping proxy to a key that
\* is absent from the mapping succeeds whether the key is a string or an
\* integer: the key is added with the value and an Add is recorded at it.
C21_AbsentKeyAssignmentSucceeds ==
    active =>
        \A t \in MapProxies : \A key \in MapKeys, value \in Values :
            (key \notin DOMAIN t[2].map /\ ~t[2].err) =>
                LET r == genericSetItem(t[2], t[1], key, value, active)
                IN  /\ r.err = "none"
                    /\ r.node = [t[2] EXCEPT !.map = MapPut(t[2].map, key, value)]
                    /\ r.rec
                    /\ r.change = Change("add", Append(t[1], key), value)

\* C22: when a changeSet() scope has exited, by reaching its end or by an
\* error leaving it, no change set is active.
C22_NoActiveSetAfterScopeExit ==
    [][(active /\ lastOp' \in {"pushCurrentChangeSet", "exitError"})
            => currentChanges' = <<>>]_vars

\* the changes of a change set in the order applyChanges goes through them
AppliedOrder(cs) == IF cs.inverse THEN Reversed(cs.changes) ELSE cs.changes

\* C23: a mutation appends its Change after those recorded before it, and a
\* commit pushes the list as recorded; undo() hands the change monitor the
\* inverse Changes in the reverse of recording order, and redo() hands it
\* the forward Changes in recording order.
C23_MonitorSeesAppliedOrder ==
    [][/\ (active /\ active' /\ currentChanges' # currentChanges)
            => /\ Front(currentChanges'[1].changeSet.changes) =
                      currentChanges[1].changeSet.changes
               /\ Front(currentChanges'[1].invChangeSet.changes) =
                      currentChanges[1].invChangeSet.changes
       /\ (lastOp' = "pushCurrentChangeSet" /\ raised' = "none" /\ Committing)
            => Last(undoStack') = currentChanges[1]
       /\ (lastOp' = "undo" /\ raised' = "none")
            => /\ monitored' # <<>>
               /\ AppliedOrder(Last(monitored')) =
                      Reversed(Last(undoStack).invChangeSet.changes)
       /\ (lastOp' = "redo" /\ raised' = "none")
            => /\ monitored' # <<>>
               /\ AppliedOrder(Last(monitored')) =
                      Last(redoStack).invChangeSet.changes]_vars

AttrProxies == Proxies("UndoProxyAttributeObject")

\* the sequence, mapping and attribute proxies of the model
ContainerProxies ==
    { t \in { <<path, getNestedItem(modelObject, path).node>> :
                 path \in ProxyPaths(modelObject) } :
        UndoProxy(t[2]) \in {"UndoProxySequence", "UndoProxyMapping",
                             "UndoProxyAttributeObject"} }

\* the keys a proxy's item / attribute assignment is tried with
SetKeys(m) ==
    CASE m.kind = "seq" -> {Index(j - 1) : j \in 1..Len(m.seq)}
      [] m.kind = "map" -> MapKeys
      [] OTHER -> AttrNames

\* C25: inside a change set, a proxy set of key k to v on the container at
\* path p, when k is present, calls the replace primitive and records
\* Replace(p+k, v) with inverse Replace(p+k, old), old being the value read
\* before; when k is absent, it calls the add primitive and records
\* Add(p+k, v) with inverse Remove(p+k).
C25_SetRecordsReplaceOrAdd ==
    active =>
        \A t \in ContainerProxies :
            \A key \in SetKeys(t[2]), value \in Values :
                (~t[2].err /\ t[2] # NoneNode) =>
                    genericSetItem(t[2], t[1], key, value, active) =
                        IF hasItem(t[2], key).has
                        THEN ProxyDone(replaceItem(t[2], key, value).node,
                                       Change("replace", Append(t[1], key), value),
                                       Change("replace", Append(t[1], key),
                                              getItem(t[2], key).node))
                        ELSE ProxyDone(addItem(t[2], key, value).node,
                                       Change("add", Append(t[1], key), value),
                                       Change("remove", Append(t[1], key), NoneNode))

\* the keys a proxy's item / attribute deletion is tried with
DelKeys(m) ==
    CASE m.kind = "seq" -> {Index(j) : j \in 0..Len(m.seq)}
      [] m.kind = "map" -> MapKeys
      [] OTHER -> AttrNames

\* the container m holds an item of its own under key k
Holds(m, k) ==
    CASE m.kind = "seq" -> k.i < Len(m.seq)
      [] m.kind = "map" -> k \in DOMAIN m.map
      [] m.kind = "obj" -> k \in DOMAIN m.map
      [] OTHER -> FALSE

\* the item m holds under key k
Held(m, k) == IF m.kind = "seq" THEN m.seq[k.i + 1] ELSE m.map[k]

\* m without the item it holds under key k
Without(m, k) ==
    IF m.kind = "seq"
    THEN [m EXCEPT !.seq = SubSeq(m.seq, 1, k.i) \o SubSeq(m.seq, k.i + 2, Len(m.seq))]
    ELSE [m EXCEPT !.map = MapDel(m.map, k)]

\* the error a container of the kind of m raises for a key it does not hold
MissingError(m) ==
    CASE m.kind = "seq" -> "IndexError"
      [] m.kind = "map" -> "KeyError"
      [] OTHER -> "AttributeError"

\* C26: inside a change set, a proxy delete of key k on the container at
\* path p fails with the container's own error, recording and changing
\* nothing, when the container holds no item under k; otherwise it removes
\* the item and records Remove(p+k) with inverse Add(p+k, old), old being
\* the item held before the removal.
C26_DeleteRecordsRemove ==
    active =>
    \A t \in ContainerProxies :
        \A key \in DelKeys(t[2]) :
            LET r == IF t[2].kind = "seq"
                     THEN seqDelItem(t[2], t[1], key.i, active)
                     ELSE genericDelItem(t[2], t[1], key, active)
            IN  IF Holds(t[2], key)
                THEN    r = ProxyDone(Without(t[2], key),
                                      Change("remove", Append(t[1], key), NoneNode),
                                      Change("add", Append(t[1], key), Held(t[2], key)))
                ELSE r = ProxyFail(MissingError(t[2]), t[2])

\* an item has just been deleted through a proxy inside a change set, and
\* the inverse recorded for it carries the deleted item
C26_Witness ==
    /\ lastOp \in {"seqDelItem", "mapDelItem", "attrDel"}
    /\ raised = "none"
    /\ active
    /\ ~isEmpty(currentChanges[1].changeSet)
    /\ Last(currentChanges[1].changeSet.changes).op = "remove"
    /\ Last(currentChanges[1].invChangeSet.changes).op = "add"
    /\ Last(currentChanges[1].invChangeSet.changes).value # NoneNode

\* the keys a Change addressing an item of the container m is tried with
ChangeKeys(m) ==
    CASE m.kind = "seq" -> {Index(i) : i \in Indices(m)}
      [] m.kind = "map" -> MapKeys
      [] OTHER -> AttrNames

\* the location k of the container m exists: an index in range, a key the
\* mapping has, an attribute the object has
Exists(m, k) ==
    IF m.kind = "seq" THEN ListInRange(m.seq, k.i) ELSE hasItem(m, k).has

\* applying the change to the model fails and leaves the model as it is
FailsUnchanged(change) ==
    LET r == applyChange(change, modelObject)
    IN  r.err # "none" /\ r.node = modelObject

\* Replace and Remove of a location that does not exist fail, leaving the
\* model unchanged
ReplaceRemoveNeedExisting(t, key, value) ==
    ~Exists(t[2], key) =>
        /\ FailsUnchanged(Change("replace", Append(t[1], key), value))
        /\ FailsUnchanged(Change("remove", Append(t[1], key), NoneNode))

\* C27 as stated: for sequences, mappings and attribute objects alike,
\* applying Add to a location that exists, or Replace or Remove to one that
\* does not, fails and leaves the model unchanged.
C27_Original ==
    \A t \in ContainerProxies :
        \A key \in ChangeKeys(t[2]), value \in Values :
            /\ Exists(t[2], key) =>
                   FailsUnchanged(Change("add", Append(t[1], key), value))
            /\ ReplaceRemoveNeedExisting(t, key, value)

\* C27 amended: applying Replace or Remove to a location that does not exist
\* fails and leaves the model unchanged, for sequences, mappings and
\* attribute objects; applying Add to a location that exists fails and
\* leaves the model unchanged for mappings and attribute objects, while on a
\* sequence Add succeeds for every index and inserts the value there, as
\* list.insert does.
C27_PreconditionsOfChanges ==
    \A t \in ContainerProxies :
        \A key \in ChangeKeys(t[2]), value \in Values :
            /\ IF t[2].kind = "seq"
               THEN applyChange(Change("add", Append(t[1], key), value), modelObject) =
                        Ok(PutNested(modelObject, t[1],
                                     [t[2] EXCEPT !.seq = ListInsert(t[2].seq, key.i, value)]))
               ELSE Exists(t[2], key) =>
                        FailsUnchanged(Change("add", Append(t[1], key), value))
            /\ ReplaceRemoveNeedExisting(t, key, value)

\* undo() has just applied an Add to an attribute that exists: it failed and
\* the model is as it was
C27_Witness ==
    /\ lastOp = "undo"
    /\ raised = "AssertionError"
    /\ popped # <<>>
    /\ modelObject = popped[1].post
    /\ modelObject.kind = "obj"

\* test_getNestedItem: path elements tried after an item that is missing
PathTails == {Key("a"), Index(0)}

\* the item the get primitive finds in the container m under key k: an item
\* of a sequence counted from the end for a negative index, a value of a
\* mapping, an attribute of the object or of its class
Found(m, k) ==
    CASE m.kind = "seq" -> m.seq[(IF k.i < 0 THEN k.i + Len(m.seq) ELSE k.i) + 1]
      [] m.kind = "map" -> m.map[k]
      [] OTHER -> IF k \in DOMAIN m.map THEN m.map[k] ELSE m.cls[k]

\* the outcome of a nested modification of the model: that of the primitive
\* on the container t, failing with the model unchanged or giving the model
\* with the container as the primitive left it
ActsOnLast(r, t, res) ==
    r = IF res.err # "none" THEN Raise(res.err, modelObject)
        ELSE Ok(PutNested(modelObject, t[1], res.node))

\* C28: getNestedItem gives the root for the empty path, and for a path to a
\* container followed by a key, the item the container has under the key, or
\* fails with the container's own error: IndexError for an index out of
\* range, KeyError for a missing key, AttributeError for a missing
\* attribute; a longer path through a missing item fails with the same
\* error. add / replace / removeNestedItem fail with that error when the path
\* up to the last element does, and otherwise do what the add / replace /
\* remove primitive does with the last element on the container found.
C28_NestedItemsResolveNatively ==
    /\ getNestedItem(modelObject, <<>>) = Ok(modelObject)
    /\ \A t \in ContainerProxies :
         \A key \in ChangeKeys(t[2]), value \in Values :
            LET path == Append(t[1], key)
                missing == Raise(MissingError(t[2]), modelObject)
            IN  /\ getNestedItem(modelObject, path) =
                       IF Exists(t[2], key) THEN Ok(Found(t[2], key)) ELSE missing
                /\ ActsOnLast(addNestedItem(modelObject, path, value), t,
                              addItem(t[2], key, value))
                /\ ActsOnLast(replaceNestedItem(modelObject, path, value), t,
                              replaceItem(t[2], key, value))
                /\ ActsOnLast(removeNestedItem(modelObject, path), t,
                              removeItem(t[2], key))
                /\ ~Exists(t[2], key) =>
                       \A last \in PathTails :
                          /\ getNestedItem(modelObject, Append(path, last)) = missing
                          /\ addNestedItem(modelObject, Append(path, last), value) = missing
                          /\ replaceNestedItem(modelObject, Append(path, last), value) = missing
                          /\ removeNestedItem(modelObject, Append(path, last)) = missing

\* undo() has just applied a change addressed by a path of two elements
C28_Witness ==
    /\ lastOp = "undo"
    /\ raised = "none"
    /\ popped # <<>>
    /\ redoStack # <<>>
    /\ Len(Last(redoStack).changeSet.changes[1].path) = 2
    /\ modelObject = popped[1].pre

\* the nodes of the model: the root, and every item of a node that has a
\* proxy
ModelNodes ==
    {modelObject} \cup
    UNION { { getItem(getNestedItem(modelObject, p).node, k).node :
                  k \in ChildKeys(getNestedItem(modelObject, p).node) } :
            p \in ProxyPaths(modelObject) }

\* C29: the proxy chosen for a node depends on its type alone: a sequence
\* gets the sequence proxy, a mapping the mapping proxy, a set the set proxy,
\* a callable the callable proxy, a number, string or tuple is handed out as
\* it is, and anything else gets the attribute proxy; no proxy is handed out
\* for anything inside a tuple; assigning a tuple to an item of a sequence
\* records one Replace carrying the tuple, and undo() of a committed change
\* set restores the model as it was before it.
C29_ProxyByTypeTupleAtomic ==
    /\ \A n \in ModelNodes \cup SampleNodes :
          UndoProxy(n) =
              CASE n.kind = "seq" -> "UndoProxySequence"
                [] n.kind = "map" -> "UndoProxyMapping"
                [] n.kind = "set" -> "UndoProxySet"
                [] n.kind = "call" -> "UndoProxyCallable"
                [] n.kind \in {"atom", "tuple"} -> "atomic"
                [] OTHER -> "UndoProxyAttributeObject"
    /\ \A p \in ProxyPaths(modelObject) :
          \A j \in 0..Len(p) :
             getNestedItem(modelObject, SubSeq(p, 1, j)).node.kind # "tuple"
    /\ active =>
          \A t \in SeqProxies : \A j \in 1..Len(t[2].seq) :
             seqSetItem(t[2], t[1], j - 1, TupleValue, active) =
                 ProxyDone([t[2] EXCEPT !.seq[j] = TupleValue],
                           Change("replace", Append(t[1], Index(j - 1)), TupleValue),
                           Change("replace", Append(t[1], Index(j - 1)), t[2].seq[j]))
    /\ (lastOp = "undo" /\ popped # <<>>)
          => raised = "none" /\ modelObject = popped[1].pre

\* a change set that replaced an item of a sequence by a tuple has just
\* been undone
C29_Witness ==
    /\ lastOp = "undo"
    /\ raised = "none"
    /\ popped # <<>>
    /\ redoStack # <<>>
    /\ Len(Last(redoStack).invChangeSet.changes) = 1
    /\ Last(redoStack).invChangeSet.changes[1].op = "replace"
    /\ Last(redoStack).invChangeSet.changes[1].value = TupleValue
    /\ Last(Last(redoStack).invChangeSet.changes[1].path).isInt
    /\ popped[1].post # popped[1].pre
    /\ modelObject = popped[1].pre

CallProxies == {t \in Proxies("UndoProxyCallable") : Len(t[1]) > 0}

\* C30: a call through a callable proxy returns what the wrapped callable
\* returns, with or without an active change set, and leaves the active
\* change set and both stacks as they were, whatever the callee did to the
\* model.
C30_CallPassesThrough ==
    /\ [](\A t \in CallProxies : \A x \in CallArgs :
            /\ callableCall(modelObject, t[1], x).err = "none"
            /\ callableCall(modelObject, t[1], x).ret = Atom(x + t[2].val))
    /\ [][lastOp' = "call"
            => /\ raised' = "none"
               /\ returned'.kind = "atom"
               /\ UNCHANGED <<currentChanges, undoStack, redoStack>>]_vars

\* a method that changes the model has just been called through its proxy
\* with no change set active: the attribute is stored, and nothing is on the
\* stacks
C30_Witness ==
    /\ lastOp = "call"
    /\ raised = "none"
    /\ returned = Atom(3)
    /\ ~active
    /\ undoStack = <<>>
    /\ redoStack = <<>>
    /\ modelObject.kind = "obj"
    /\ Key("y") \in DOMAIN modelObject.map
    /\ modelObject.map[Key("y")] = Atom(3)

\* C31: pushCurrentChangeSet called while no change set is active fails and
\* leaves both stacks, the slot and the model unchanged, and called while one
\* is active it returns; addChange and ensureCanAddChange fail while no
\* change set is active, leaving everything unchanged, and return while one
\* is active.
C31_PushAndAddNeedActiveSet ==
    [][/\ (~active /\ lastOp' \in {"pushCurrentChangeSet", "addChange",
                                     "ensureCanAddChange"})
            => /\ raised' = "AssertionError"
               /\ UNCHANGED <<undoStack, redoStack, currentChanges, modelObject>>
       /\ (active /\ lastOp' \in {"pushCurrentChangeSet", "addChange",
                                    "ensureCanAddChange"})
            => raised' = "none"]_vars

\* pushCurrentChangeSet has just failed for want of an active change set,
\* with an entry on the undo stack
C31_Witness ==
    /\ lastOp = "pushCurrentChangeSet"
    /\ raised = "AssertionError"
    /\ ~active
    /\ undoStack # <<>>

\* the forward change sets of the entries of stack applied to model, from
\* the bottom of the stack to its top
RECURSIVE applyForward(_, _)
applyForward(stack, model) ==
    IF stack = <<>> THEN Ok(model)
    ELSE LET r == applyChanges(Head(stack).changeSet, model)
         IN  IF r.err # "none" THEN r ELSE applyForward(Tail(stack), r.node)

\* C32: whenever no change set is active, the model equals the model as
\* setModel took it with the forward change sets of the undo stack's entries
\* applied from bottom to top; so with an empty undo stack it equals the
\* model as setModel took it; and undo() of an entry succeeds.
C32_ModelIsReplayOfUndoStack ==
    /\ ~active => applyForward(undoStack, given) = Ok(modelObject)
    /\ (lastOp = "undo" /\ popped # <<>>) => raised = "none"

\* C33: while a change set is active, its forward and inverse lists have
\* equal length, and applying the inverse Changes recorded so far in reverse
\* order to the current model succeeds and yields the model as it was when
\* the change set was opened.
C33_InverseReplayRestoresOpening ==
    active =>
        /\ Len(currentChanges[1].changeSet.changes) =
               Len(currentChanges[1].invChangeSet.changes)
        /\ applyChanges(currentChanges[1].invChangeSet, modelObject) =
               Ok(opened.model)

\* C34: a redo() that follows a successful undo() at once succeeds and leaves
\* both stacks exactly as the undo() found them, and so does an undo() that
\* follows a successful redo() at once: the entry is back on its stack with
\* its info, its forward list and its inverse list as they were.
C34_UndoRedoRestoresStacks ==
    [][((\/ lastOp = "undo" /\ lastOp' = "redo"
         \/ lastOp = "redo" /\ lastOp' = "undo")
        /\ raised = "none")
            => /\ raised' = "none"
               /\ <<undoStack', redoStack'>> = stacksBefore]_vars

\* redo() has just put back on the undo stack, as its top entry, a change
\* set of two changes that it found on the redo stack with its two sets
\* exchanged, where an undo() had left it
C34_Witness ==
    /\ lastOp = "redo"
    /\ raised = "none"
    /\ stacksBefore # <<>>
    /\ undoStack # <<>>
    /\ Len(Last(undoStack).changeSet.changes) = 2
    /\ stacksBefore[1] = Front(undoStack)
    /\ stacksBefore[2] = Append(redoStack, Swapped(Last(undoStack)))

\* the entries of both stacks, each with its forward set in first place
StackEntries ==
    { IF e.changeSet.inverse THEN Entry(e.info, e.invChangeSet, e.changeSet) ELSE e :
        e \in {undoStack[i] : i \in 1..Len(undoStack)} \cup
              {redoStack[i] : i \in 1..Len(redoStack)} }

\* C35: every entry of the undo stack and of the redo stack holds two
\* non-empty change lists of equal length; and every entry found on a stack
\* after a call was on a stack before it with the same info and the same two
\* lists, or is the active change set as the call found it.
C35_StackEntriesNeverChange ==
    /\ [](\A e \in StackEntries :
              /\ e.changeSet.changes # <<>>
              /\ Len(e.changeSet.changes) = Len(e.invChangeSet.changes))
    /\ [][StackEntries' \subseteq
              StackEntries \cup {currentChanges[i] : i \in 1..Len(currentChanges)}]_vars

\* a mutation has just been recorded in a new change set while an earlier
\* one sits on the undo stack
C35_Witness ==
    /\ lastOp \in MutationOps
    /\ raised = "none"
    /\ active
    /\ ~isEmpty(currentChanges[1].changeSet)
    /\ undoStack # <<>>

\* C36: the stacks do not change while a change set is active, and a scope
\* that ends by rollback, or by a commit of no changes, leaves both stacks
\* as they are; a redo stack that is non-empty then is not cleared, and
\* redo() called after the scope succeeds.
C36_RollbackAndEmptyCommitKeepStacks ==
    [][/\ (active /\ active') => UNCHANGED <<undoStack, redoStack>>
       /\ (/\ active
           /\ \/ lastOp' \in {"rollbackCurrentChangeSet", "exitError"}
              \/ lastOp' = "pushCurrentChangeSet" /\ ~Committing)
            => /\ UNCHANGED <<undoStack, redoStack>>
               /\ redoStack # <<>> => ~RedoFails']_vars

\* C37: when undo() or redo() has popped an entry and applying it raises,
\* the call raises that error, the entry is gone from its stack and the
\* other stack is as it was, and the model is left with the Changes that
\* were applied before the failing one, in their order of application.
C37_FailedUndoDropsEntry ==
    [][(lastOp' \in {"undo", "redo"} /\ raised' # "none" /\ popped' # <<>>)
            => LET e == IF lastOp' = "undo" THEN Last(undoStack) ELSE Last(redoStack)
                   todo == AppliedOrder(e.invChangeSet)
               IN  /\ undoStack' = IF lastOp' = "undo" THEN Front(undoStack)
                                    ELSE undoStack
                   /\ redoStack' = IF lastOp' = "redo" THEN Front(redoStack)
                                    ELSE redoStack
                   /\ \E k \in 0..(Len(todo) - 1) :
                         /\ applyInOrder(SubSeq(todo, 1, k), modelObject) =
                                Ok(modelObject')
                         /\ applyChange(todo[k + 1], modelObject') =
                                Raise(raised', modelObject')]_vars

\* undo() has just failed on the second of the two Changes it had to apply:
\* the entry is gone and the model is the one the first Change left
C37_Witness ==
    /\ lastOp = "undo"
    /\ raised = "AssertionError"
    /\ popped # <<>>
    /\ modelObject # popped[1].post
    /\ modelObject # popped[1].pre
    /\ undoStack = <<>>
    /\ redoStack = <<>>

\* a rollback has just failed and left its change set active
RollbackFailed ==
    /\ lastOp \in {"rollbackCurrentChangeSet", "exitError"}
    /\ raised # "none"
    /\ active

\* undo() called now would raise
UndoFails == performUndo(undoStack, redoStack).err # "none"

\* C38 as stated, for the call that comes next: once replaying an inverse
\* Change has raised during a rollback, the change set is still active after
\* the next call to the manager or a proxy, whatever that call is, so that
\* newChangeSet, undo() and redo() made after it fail.
C38_Original ==
    [][RollbackFailed => (active' /\ UndoFails' /\ RedoFails')]_vars

\* C38 amended: a rollback clears the slot if and only if the inverse replay
\* returned; when the replay raises, the rollback raises that error and the
\* change set stays active as it was; while a change set is active every
\* newChangeSet, undo() and redo() fails with UndoManagerError and changes
\* nothing; and an active change set ends only by pushCurrentChangeSet or by
\* a rollback whose replay returns.
C38_FailedRollbackStaysActive ==
    [][/\ (active /\ lastOp' \in {"rollbackCurrentChangeSet", "exitError"})
            => IF applyChanges(currentChanges[1].invChangeSet, modelObject).err # "none"
               THEN /\ raised' = applyChanges(currentChanges[1].invChangeSet,
                                              modelObject).err
                    /\ currentChanges' = currentChanges
               ELSE currentChanges' = <<>>
       /\ (active /\ lastOp' \in {"newChangeSet", "undo", "redo"})
            => /\ raised' = "UndoManagerError"
               /\ UNCHANGED <<currentChanges, undoStack, redoStack, modelObject>>
       /\ (active /\ ~active')
            => lastOp' \in {"pushCurrentChangeSet", "rollbackCurrentChangeSet",
                            "exitError"}]_vars

\* a rollback has just failed, leaving its change set active, with an entry
\* on the redo stack that redo() can no longer reach
C38_Witness ==
    /\ RollbackFailed
    /\ raised = "AssertionError"
    /\ redoStack # <<>>

====
